---------------------------- MODULE Spec2Model ----------------------------
(***************************************************************************)
(* A model of the graphmemes crate: the zero-allocation grapheme cluster   *)
(* iterator (src/graphmemes/src/iter.rs), the category classifier and the  *)
(* Grapheme value (src/graphmemes/src/grapheme.rs) and the error values    *)
(* (src/graphmemes/src/error.rs).                                          *)
(*                                                                         *)
(* A char is its Unicode scalar value (a natural number).  One step of the *)
(* model is one iteration of the `while let` loop of Iterator::next, or    *)
(* the code after the loop; `ret` tells whether the call has returned.     *)
(***************************************************************************)
EXTENDS Integers, Sequences, FiniteSets, TLC

VARIABLES
    text,   \* text[i]: the &str instance i was constructed over (never changes)
    iter,   \* iter[i]: the GraphemeIterator struct of instance i
    ret,    \* ret[i]: what the current call of next() has returned, if it has
    items   \* items[i]: every Some(..) that next() has returned so far, in order

vars == <<text, iter, ret, items>>

---------------------------------------------------------------------------
(* Constants of the crate *)

\* lib.rs: pub(crate) const MAX_GRAPHEME_SIZE: usize = 8;
MAX_GRAPHEME_SIZE == 8

\* iter.rs: const STATE_MASK: u8 = 0b111;
STATE_MASK == 7
STATE_START == 0
STATE_IN_GRAPHEME == 1
STATE_IN_ANSI == 2

\* grapheme.rs, mod boundary
EXTEND == 1
ZWJ == 2
SPACINGMARK == 4
PREPEND == 8
REGIONAL == 16
EMOJI_MOD == 32

\* '\x1b'
ESC == 27

---------------------------------------------------------------------------
(* Methods of char (core) that the crate calls *)

\* char::is_ascii
is_ascii(c) == c <= \H7F

\* char::is_ascii_alphabetic: 'A'..='Z' | 'a'..='z'
is_ascii_alphabetic(c) ==
    \/ (\H41 <= c /\ c <= \H5A)
    \/ (\H61 <= c /\ c <= \H7A)

\* char::len_utf8: the number of bytes of the UTF-8 encoding
len_utf8(c) ==
    IF c < \H80 THEN 1
    ELSE IF c < \H800 THEN 2
    ELSE IF c < \H10000 THEN 3
    ELSE 4

---------------------------------------------------------------------------
(* grapheme.rs *)

InRange(c, lo, hi) == lo <= c /\ c <= hi

is_emoji(c) ==
    \/ InRange(c, \H1F300, \H1F9FF)
    \/ InRange(c, \H2600, \H26FF)
    \/ InRange(c, \H2700, \H27BF)

is_extend(c) ==
    \/ InRange(c, \H0300, \H036F)
    \/ InRange(c, \H1AB0, \H1AFF)
    \/ InRange(c, \H1DC0, \H1DFF)
    \/ InRange(c, \H20D0, \H20FF)
    \/ InRange(c, \HFE20, \HFE2F)

is_spacing_mark(c) ==
    \/ c = \H0903
    \/ InRange(c, \H093E, \H0940)
    \/ InRange(c, \H0949, \H094C)
    \/ InRange(c, \H094E, \H094F)
    \/ InRange(c, \H0982, \H0983)

is_prepend(c) ==
    \/ InRange(c, \H0600, \H0605)
    \/ c = \H06DD
    \/ c = \H070F
    \/ InRange(c, \H0890, \H0891)
    \/ c = \H08E2

\* char_category without its arm '\u{1F3FB}'..='\u{1F3FF}'
char_category_without_skin_tones(c) ==
    IF c = \H200D THEN ZWJ
    ELSE IF c = \HFE0F THEN EMOJI_MOD
    ELSE IF InRange(c, \H1F1E6, \H1F1FF) THEN REGIONAL
    ELSE IF is_ascii(c) THEN 0
    ELSE IF is_extend(c) THEN EXTEND
    ELSE IF is_spacing_mark(c) THEN SPACINGMARK
    ELSE IF is_prepend(c) THEN PREPEND
    ELSE 0

\* Grapheme::char_category: the first matching arm wins
char_category(c) ==
    IF c = \H200D THEN ZWJ
    ELSE IF c = \HFE0F THEN EMOJI_MOD
    ELSE IF InRange(c, \H1F3FB, \H1F3FF) THEN EMOJI_MOD
    ELSE IF InRange(c, \H1F1E6, \H1F1FF) THEN REGIONAL
    ELSE IF is_ascii(c) THEN 0
    ELSE IF is_extend(c) THEN EXTEND
    ELSE IF is_spacing_mark(c) THEN SPACINGMARK
    ELSE IF is_prepend(c) THEN PREPEND
    ELSE 0

\* Grapheme::new: the whole array is copied, with the number of valid chars
Grapheme(chars, len) == [chars |-> chars, len |-> len]

\* Grapheme::as_chars: &self.chars[..self.len]
as_chars(g) == [k \in 1..g.len |-> g.chars[k - 1]]

---------------------------------------------------------------------------
(* error.rs *)

invalid_ansi(offset, sequence_len) ==
    [kind |-> "InvalidAnsiSequence", offset |-> offset, sequence_len |-> sequence_len]

buffer_overflow(offset, sequence_len) ==
    [kind |-> "BufferOverflow", offset |-> offset, sequence_len |-> sequence_len]

---------------------------------------------------------------------------

\* GraphemeError::offset
offset(e) ==
    CASE e.kind = "InvalidAnsiSequence" -> e.offset
      [] e.kind = "BufferOverflow" -> e.offset

\* sequence_length returning the offset field
sequence_length_returns_offset(e) ==
    CASE e.kind = "InvalidAnsiSequence" -> e.offset
      [] e.kind = "BufferOverflow" -> e.offset

\* GraphemeError::sequence_length
sequence_length(e) ==
    CASE e.kind = "InvalidAnsiSequence" -> e.sequence_len
      [] e.kind = "BufferOverflow" -> e.sequence_len

\* GraphemeError::message
message(e) ==
    CASE e.kind = "InvalidAnsiSequence" -> "Invalid ANSI sequence"
      [] e.kind = "BufferOverflow" -> "Grapheme buffer overflow"

\* GraphemeError::help
help(e) ==
    CASE e.kind = "InvalidAnsiSequence" ->
            "ANSI sequences must follow format: \\x1b[<n>m"
      [] e.kind = "BufferOverflow" ->
            "Grapheme sequence exceeds maximum supported length (8 code points)"

---------------------------------------------------------------------------
(* Result<Option<Grapheme>> of process_char, Option<Result<Grapheme>> of next *)

OkSome(g) == [tag |-> "OkSome", val |-> g]
OkNone == [tag |-> "OkNone", val |-> <<>>]
Err(e) == [tag |-> "Err", val |-> e]

SomeOk(g) == [tag |-> "SomeOk", val |-> g]
SomeErr(e) == [tag |-> "SomeErr", val |-> e]
None == [tag |-> "None", val |-> <<>>]
\* next() has not been called yet / is still in its loop
NotCalled == [tag |-> "NotCalled", val |-> <<>>]
Continue == [tag |-> "Continue", val |-> <<>>]

---------------------------------------------------------------------------
(* iter.rs: GraphemeIterator *)

\* GraphemeIterator::new
new(t, count) ==
    [ chars         |-> t,
      position      |-> 0,
      buffer        |-> [k \in 0..(MAX_GRAPHEME_SIZE - 1) |-> 0],
      buffer_len    |-> 0,
      state         |-> STATE_START + (IF count THEN 8 ELSE 0),
      prev_category |-> 0 ]

\* (self.state >> 3) & 1 == 1
count_ansi(self) == (self.state \div 8) % 2 = 1

\* self.state & STATE_MASK
state(self) == self.state % (STATE_MASK + 1)

\* set_state as `self.state = new_state`, dropping the bits above the mask
set_state_clears_flags(self, new_state) ==
    [self EXCEPT !.state = new_state]

\* self.state = (self.state & !STATE_MASK) | new_state
set_state(self, new_state) ==
    [self EXCEPT !.state = (self.state - (self.state % (STATE_MASK + 1))) + new_state]

\* boundary_rules without its arm (_, boundary::EXTEND)
boundary_rules_without_extend(prev, category, c) ==
    IF category = ZWJ THEN FALSE
    ELSE IF prev = ZWJ /\ is_emoji(c) THEN FALSE
    ELSE IF prev = REGIONAL /\ category = REGIONAL THEN FALSE
    ELSE IF category = EMOJI_MOD THEN FALSE
    ELSE IF category = SPACINGMARK THEN FALSE
    ELSE IF prev = PREPEND THEN FALSE
    ELSE TRUE

\* boundary_rules without its arm (boundary::ZWJ, _) if is_emoji(c)
boundary_rules_without_emoji_after_zwj(prev, category, c) ==
    IF category = ZWJ THEN FALSE
    ELSE IF category = EXTEND THEN FALSE
    ELSE IF prev = REGIONAL /\ category = REGIONAL THEN FALSE
    ELSE IF category = EMOJI_MOD THEN FALSE
    ELSE IF category = SPACINGMARK THEN FALSE
    ELSE IF prev = PREPEND THEN FALSE
    ELSE TRUE

\* boundary_rules without its arm (_, boundary::EMOJI_MOD)
boundary_rules_without_emoji_mod(prev, category, c) ==
    IF category = ZWJ THEN FALSE
    ELSE IF prev = ZWJ /\ is_emoji(c) THEN FALSE
    ELSE IF category = EXTEND THEN FALSE
    ELSE IF prev = REGIONAL /\ category = REGIONAL THEN FALSE
    ELSE IF category = SPACINGMARK THEN FALSE
    ELSE IF prev = PREPEND THEN FALSE
    ELSE TRUE

\* boundary_rules without its arm (boundary::REGIONAL, boundary::REGIONAL)
boundary_rules_without_regional_pair(prev, category, c) ==
    IF category = ZWJ THEN FALSE
    ELSE IF prev = ZWJ /\ is_emoji(c) THEN FALSE
    ELSE IF category = EXTEND THEN FALSE
    ELSE IF category = EMOJI_MOD THEN FALSE
    ELSE IF category = SPACINGMARK THEN FALSE
    ELSE IF prev = PREPEND THEN FALSE
    ELSE TRUE

\* The match of is_boundary on (self.prev_category, category)
boundary_rules(prev, category, c) ==
    IF category = ZWJ THEN FALSE
    ELSE IF prev = ZWJ /\ is_emoji(c) THEN FALSE
    ELSE IF category = EXTEND THEN FALSE
    ELSE IF prev = REGIONAL /\ category = REGIONAL THEN FALSE
    ELSE IF category = EMOJI_MOD THEN FALSE
    ELSE IF category = SPACINGMARK THEN FALSE
    ELSE IF prev = PREPEND THEN FALSE
    ELSE TRUE

\* GraphemeIterator::is_boundary(&mut self, c): the answer and self afterwards
is_boundary(self, c) ==
    LET category == char_category(c) IN
    IF self.buffer_len <= 1
    THEN [self |-> [self EXCEPT !.prev_category = category], result |-> FALSE]
    ELSE [self   |-> [self EXCEPT !.prev_category = category],
          result |-> boundary_rules(self.prev_category, category, c)]

\* emit_before_last with the appended char counted into the emitted cluster
emit_before_last_with_last(self) ==
    LET grapheme == Grapheme(self.buffer, self.buffer_len)
        moved == [self EXCEPT !.buffer[0] = self.buffer[self.buffer_len - 1],
                              !.buffer_len = 1]
    IN [self |-> set_state(moved, STATE_IN_GRAPHEME), result |-> OkSome(grapheme)]

\* emit_before_last without `self.buffer[0] = last_char`
emit_before_last_without_move(self) ==
    LET grapheme == Grapheme(self.buffer, self.buffer_len - 1)
        moved == [self EXCEPT !.buffer_len = 1]
    IN [self |-> set_state(moved, STATE_IN_GRAPHEME), result |-> OkSome(grapheme)]

\* emit_before_last going to STATE_START, as the documentation of
\* process_char has it
emit_before_last_to_start(self) ==
    LET grapheme == Grapheme(self.buffer, self.buffer_len - 1)
        moved == [self EXCEPT !.buffer[0] = self.buffer[self.buffer_len - 1],
                              !.buffer_len = 1]
    IN [self |-> set_state(moved, STATE_START), result |-> OkSome(grapheme)]

\* The cluster before the char just appended is emitted; that char is moved
\* to the start of the buffer
emit_before_last(self) ==
    LET grapheme == Grapheme(self.buffer, self.buffer_len - 1)
        moved == [self EXCEPT !.buffer[0] = self.buffer[self.buffer_len - 1],
                              !.buffer_len = 1]
    IN [self |-> set_state(moved, STATE_IN_GRAPHEME), result |-> OkSome(grapheme)]

\* (c, STATE_START) if c.is_ascii() && c != '\x1b'
ascii_fast_path(self, c, current_pos) ==
    IF self.buffer_len >= MAX_GRAPHEME_SIZE
    THEN [self |-> self, result |-> Err(buffer_overflow(current_pos, len_utf8(c)))]
    ELSE LET pushed == [self EXCEPT !.buffer[self.buffer_len] = c,
                                    !.buffer_len = self.buffer_len + 1]
         IN IF pushed.buffer_len = 1
            THEN [self |-> set_state(pushed, STATE_IN_GRAPHEME), result |-> OkNone]
            ELSE emit_before_last(pushed)

\* escape_start without the `self.buffer_len > 0` test
escape_start_always_flushes(self) ==
    [self   |-> set_state([self EXCEPT !.buffer_len = 0], STATE_IN_ANSI),
     result |-> OkSome(Grapheme(self.buffer, self.buffer_len))]

\* escape_start without `self.buffer_len = 0`
escape_start_keeps_buffer(self) ==
    IF self.buffer_len > 0
    THEN [self   |-> set_state(self, STATE_IN_ANSI),
          result |-> OkSome(Grapheme(self.buffer, self.buffer_len))]
    ELSE [self |-> set_state(self, STATE_IN_ANSI), result |-> OkNone]

\* ('\x1b', _)
escape_start(self) ==
    IF self.buffer_len > 0
    THEN [self   |-> set_state([self EXCEPT !.buffer_len = 0], STATE_IN_ANSI),
          result |-> OkSome(Grapheme(self.buffer, self.buffer_len))]
    ELSE [self |-> set_state(self, STATE_IN_ANSI), result |-> OkNone]

\* in_ansi emitting the token whatever count_ansi says
in_ansi_always_counted(self, c, current_pos) ==
    IF is_ascii_alphabetic(c)
    THEN LET marked == [set_state(self, STATE_START) EXCEPT !.buffer[0] = ESC]
         IN [self |-> marked, result |-> OkSome(Grapheme(marked.buffer, 1))]
    ELSE IF ~is_ascii(c)
    THEN [self |-> self, result |-> Err(invalid_ansi(current_pos, len_utf8(c)))]
    ELSE [self |-> self, result |-> OkNone]

\* in_ansi leaving the ESC of the token in the buffer as a buffered char
in_ansi_keeps_esc(self, c, current_pos) ==
    IF is_ascii_alphabetic(c)
    THEN LET started == set_state(self, STATE_START) IN
         IF count_ansi(started)
         THEN LET marked == [started EXCEPT !.buffer[0] = ESC, !.buffer_len = 1]
              IN [self |-> marked, result |-> OkSome(Grapheme(marked.buffer, 1))]
         ELSE [self |-> started, result |-> OkNone]
    ELSE IF ~is_ascii(c)
    THEN [self |-> self, result |-> Err(invalid_ansi(current_pos, len_utf8(c)))]
    ELSE [self |-> self, result |-> OkNone]

\* in_ansi skipping a char that is not ASCII like any other parameter byte
in_ansi_skips_non_ascii(self, c, current_pos) ==
    IF is_ascii_alphabetic(c)
    THEN LET started == set_state(self, STATE_START) IN
         IF count_ansi(started)
         THEN LET marked == [started EXCEPT !.buffer[0] = ESC]
              IN [self |-> marked, result |-> OkSome(Grapheme(marked.buffer, 1))]
         ELSE [self |-> started, result |-> OkNone]
    ELSE [self |-> self, result |-> OkNone]

\* in_ansi putting the terminator, not ESC, into the token
in_ansi_token_is_terminator(self, c, current_pos) ==
    IF is_ascii_alphabetic(c)
    THEN LET started == set_state(self, STATE_START) IN
         IF count_ansi(started)
         THEN LET marked == [started EXCEPT !.buffer[0] = c]
              IN [self |-> marked, result |-> OkSome(Grapheme(marked.buffer, 1))]
         ELSE [self |-> started, result |-> OkNone]
    ELSE IF ~is_ascii(c)
    THEN [self |-> self, result |-> Err(invalid_ansi(current_pos, len_utf8(c)))]
    ELSE [self |-> self, result |-> OkNone]

\* in_ansi ending the sequence at any ASCII char
in_ansi_any_ascii_terminates(self, c, current_pos) ==
    IF is_ascii_alphabetic(c)
    THEN LET started == set_state(self, STATE_START) IN
         IF count_ansi(started)
         THEN LET marked == [started EXCEPT !.buffer[0] = ESC]
              IN [self |-> marked, result |-> OkSome(Grapheme(marked.buffer, 1))]
         ELSE [self |-> started, result |-> OkNone]
    ELSE IF ~is_ascii(c)
    THEN [self |-> self, result |-> Err(invalid_ansi(current_pos, len_utf8(c)))]
    ELSE [self |-> set_state(self, STATE_START), result |-> OkNone]

\* in_ansi giving up the sequence when it reports an error
in_ansi_error_ends_sequence(self, c, current_pos) ==
    IF is_ascii_alphabetic(c)
    THEN LET started == set_state(self, STATE_START) IN
         IF count_ansi(started)
         THEN LET marked == [started EXCEPT !.buffer[0] = ESC]
              IN [self |-> marked, result |-> OkSome(Grapheme(marked.buffer, 1))]
         ELSE [self |-> started, result |-> OkNone]
    ELSE IF ~is_ascii(c)
    THEN [self   |-> set_state(self, STATE_START),
          result |-> Err(invalid_ansi(current_pos, len_utf8(c)))]
    ELSE [self |-> self, result |-> OkNone]

\* (c, STATE_IN_ANSI)
in_ansi(self, c, current_pos) ==
    IF is_ascii_alphabetic(c)
    THEN LET started == set_state(self, STATE_START) IN
         IF count_ansi(started)
         THEN LET marked == [started EXCEPT !.buffer[0] = ESC]
              IN [self |-> marked, result |-> OkSome(Grapheme(marked.buffer, 1))]
         ELSE [self |-> started, result |-> OkNone]
    ELSE IF ~is_ascii(c)
    THEN [self |-> self, result |-> Err(invalid_ansi(current_pos, len_utf8(c)))]
    ELSE [self |-> self, result |-> OkNone]

\* general_path with `>` for `>=` in the capacity check
general_path_off_by_one(self, c, current_pos) ==
    IF self.buffer_len > MAX_GRAPHEME_SIZE
    THEN [self |-> self, result |-> Err(buffer_overflow(current_pos, len_utf8(c)))]
    ELSE LET pushed == [self EXCEPT !.buffer[self.buffer_len] = c,
                                    !.buffer_len = self.buffer_len + 1]
         IN IF pushed.buffer_len = 1
            THEN [self |-> set_state(pushed, STATE_IN_GRAPHEME), result |-> OkNone]
            ELSE IF is_ascii(c)
            THEN emit_before_last(pushed)
            ELSE LET b == is_boundary(pushed, c) IN
                 IF b.result
                 THEN emit_before_last(b.self)
                 ELSE [self |-> set_state(b.self, STATE_IN_GRAPHEME), result |-> OkNone]

\* general_path asking is_boundary for ASCII chars too
general_path_always_consults_rules(self, c, current_pos) ==
    IF self.buffer_len >= MAX_GRAPHEME_SIZE
    THEN [self |-> self, result |-> Err(buffer_overflow(current_pos, len_utf8(c)))]
    ELSE LET pushed == [self EXCEPT !.buffer[self.buffer_len] = c,
                                    !.buffer_len = self.buffer_len + 1]
         IN IF pushed.buffer_len = 1
            THEN [self |-> set_state(pushed, STATE_IN_GRAPHEME), result |-> OkNone]
            ELSE LET b == is_boundary(pushed, c) IN
                 IF b.result
                 THEN emit_before_last(b.self)
                 ELSE [self |-> set_state(b.self, STATE_IN_GRAPHEME), result |-> OkNone]

\* general_path emptying the buffer when it overflows
general_path_overflow_resets(self, c, current_pos) ==
    IF self.buffer_len >= MAX_GRAPHEME_SIZE
    THEN [self   |-> [self EXCEPT !.buffer_len = 0],
          result |-> Err(buffer_overflow(current_pos, len_utf8(c)))]
    ELSE LET pushed == [self EXCEPT !.buffer[self.buffer_len] = c,
                                    !.buffer_len = self.buffer_len + 1]
         IN IF pushed.buffer_len = 1
            THEN [self |-> set_state(pushed, STATE_IN_GRAPHEME), result |-> OkNone]
            ELSE IF is_ascii(c)
            THEN emit_before_last(pushed)
            ELSE LET b == is_boundary(pushed, c) IN
                 IF b.result
                 THEN emit_before_last(b.self)
                 ELSE [self |-> set_state(b.self, STATE_IN_GRAPHEME), result |-> OkNone]

\* general_path letting an ASCII char cut off a full buffer
general_path_ascii_flushes_full_buffer(self, c, current_pos) ==
    IF self.buffer_len >= MAX_GRAPHEME_SIZE /\ is_ascii(c)
    THEN [self   |-> [self EXCEPT !.buffer[0] = c, !.buffer_len = 1],
          result |-> OkSome(Grapheme(self.buffer, self.buffer_len))]
    ELSE IF self.buffer_len >= MAX_GRAPHEME_SIZE
    THEN [self |-> self, result |-> Err(buffer_overflow(current_pos, len_utf8(c)))]
    ELSE LET pushed == [self EXCEPT !.buffer[self.buffer_len] = c,
                                    !.buffer_len = self.buffer_len + 1]
         IN IF pushed.buffer_len = 1
            THEN [self |-> set_state(pushed, STATE_IN_GRAPHEME), result |-> OkNone]
            ELSE IF is_ascii(c)
            THEN emit_before_last(pushed)
            ELSE LET b == is_boundary(pushed, c) IN
                 IF b.result
                 THEN emit_before_last(b.self)
                 ELSE [self |-> set_state(b.self, STATE_IN_GRAPHEME), result |-> OkNone]

\* (c, _)
general_path(self, c, current_pos) ==
    IF self.buffer_len >= MAX_GRAPHEME_SIZE
    THEN [self |-> self, result |-> Err(buffer_overflow(current_pos, len_utf8(c)))]
    ELSE LET pushed == [self EXCEPT !.buffer[self.buffer_len] = c,
                                    !.buffer_len = self.buffer_len + 1]
         IN IF pushed.buffer_len = 1
            THEN [self |-> set_state(pushed, STATE_IN_GRAPHEME), result |-> OkNone]
            ELSE IF is_ascii(c)
            THEN emit_before_last(pushed)
            ELSE LET b == is_boundary(pushed, c) IN
                 IF b.result
                 THEN emit_before_last(b.self)
                 ELSE [self |-> set_state(b.self, STATE_IN_GRAPHEME), result |-> OkNone]

\* match_char_state whose first arm lacks the guard `c != '\x1b'`
match_char_state_fast_path_takes_esc(self, c, current_pos) ==
    IF state(self) = STATE_START /\ is_ascii(c)
    THEN ascii_fast_path(self, c, current_pos)
    ELSE IF c = ESC
    THEN escape_start(self)
    ELSE IF state(self) = STATE_IN_ANSI
    THEN in_ansi(self, c, current_pos)
    ELSE general_path(self, c, current_pos)

\* match (c, self.state()): the first matching arm wins
match_char_state(self, c, current_pos) ==
    IF state(self) = STATE_START /\ is_ascii(c) /\ c # ESC
    THEN ascii_fast_path(self, c, current_pos)
    ELSE IF c = ESC
    THEN escape_start(self)
    ELSE IF state(self) = STATE_IN_ANSI
    THEN in_ansi(self, c, current_pos)
    ELSE general_path(self, c, current_pos)

\* process_char reading current_pos after position has been advanced
process_char_reads_position_late(self, c) ==
    LET advanced == [self EXCEPT !.position = self.position + len_utf8(c)]
    IN match_char_state(advanced, c, advanced.position)

\* process_char advancing position only past a char that gave no error
process_char_error_keeps_position(self, c) ==
    LET r == match_char_state(self, c, self.position) IN
    IF r.result.tag = "Err" THEN r
    ELSE [r EXCEPT !.self.position = self.position + len_utf8(c)]

\* process_char advancing the cursor by one per char, not by len_utf8
process_char_counts_chars(self, c) ==
    LET current_pos == self.position
        moved == [self EXCEPT !.position = self.position + 1]
    IN match_char_state(moved, c, current_pos)

\* GraphemeIterator::process_char(&mut self, c): the result and self afterwards
process_char(self, c) ==
    LET current_pos == self.position
        advanced == [self EXCEPT !.position = self.position + len_utf8(c)]
    IN match_char_state(advanced, c, current_pos)

---------------------------------------------------------------------------
(* Inputs *)

\* Longest text of the exhaustive family
MaxLen == 3

Seqs(S, n) == UNION {[1..k -> S] : k \in 0..n}

Alphabet ==
    { \H61,     \* 'a'
      \H5B,     \* '['
      ESC,
      \H0301,   \* COMBINING ACUTE ACCENT (EXTEND)
      \H200D,   \* ZERO WIDTH JOINER
      \H1F468,  \* MAN (emoji range)
      \H1F3FB,  \* EMOJI MODIFIER FITZPATRICK TYPE-1-2
      \H1F1E6,  \* REGIONAL INDICATOR SYMBOL LETTER A
      \H0903,   \* DEVANAGARI SIGN VISARGA (SPACINGMARK)
      \H0600,   \* ARABIC NUMBER SIGN (PREPEND)
      \H1234 }  \* ETHIOPIC SYLLABLE SEE (no category)

\* Every text of at most MaxLen chars
ShortTexts == Seqs(Alphabet, MaxLen)

\* Longest run of one repeated char in the run family
MaxRun == 9

Rep(c, k) == [j \in 1..k |-> c]

\* The chars a run is made of: one per category that joins, and 'a'
RunChars == { \H61, \H0301, \H200D, \H1F3FB, \H1F1E6, \H0903 }

\* Nothing, any one char, or an escape sequence with a char that is not
\* ASCII in it
Heads == Seqs(Alphabet, 1) \cup { <<ESC, \H1234, \H61>> }

Tails == Seqs({ \H61, ESC, \H0301 }, 2)

\* head, then one char repeated up to MaxRun times, then tail: the clusters
\* that fill the buffer and what follows them
RunTexts ==
    { h \o Rep(c, k) \o t : h \in Heads, c \in RunChars, k \in 1..MaxRun, t \in Tails }

\* Longest emoji sequence of the ZWJ family
MaxZwj == 9

\* MAN, EMOJI MODIFIER FITZPATRICK TYPE-1-2, HEAVY BLACK HEART: one char of
\* category zero and one of category EMOJI_MOD in the first range of
\* is_emoji, and one char of its last range
Emoji == { \H1F468, \H1F3FB, \H2764 }
\* VARIATION SELECTOR-16: EMOJI_MOD, outside the ranges of is_emoji
Modifiers == { \HFE0F }

\* emoji, each followed by any number of modifiers, joined by ZWJ, of at
\* most n chars
RECURSIVE ZwjSequences(_)
ZwjSequences(n) ==
    IF n <= 1 THEN {<<e>> : e \in Emoji}
    ELSE LET shorter == ZwjSequences(n - 1) IN
         shorter
           \cup {Append(s, m) : s \in shorter, m \in Modifiers}
           \cup {s \o <<\H200D, e>> : s \in {x \in shorter : Len(x) <= n - 2}, e \in Emoji}

ZwjTexts == ZwjSequences(MaxZwj)

\* Text and escape sequences: 'a', '[' and ESC in every order
AnsiTexts == Seqs({ \H61, \H5B, ESC }, MaxLen + 2)

\* "\x1b[31mred\x1b[0m", the text of test_ansi
AnsiExample == << ESC, \H5B, \H33, \H31, \H6D, \H72, \H65, \H64, ESC, \H5B, \H30, \H6D >>

\* "Hello " + WAVING HAND SIGN + EMOJI MODIFIER FITZPATRICK TYPE-4, the text
\* meant by the example in the documentation of GraphemeIterator (iter.rs
\* stores the UTF-8 bytes of the two scalars F0 9F 91 8B F0 9F 8F BD decoded
\* as Mac OS Roman)
DocExample == << \H48, \H65, \H6C, \H6C, \H6F, \H20, \H1F44B, \H1F3FD >>

\* ASCII text, then an emoji, then an emoji modifier
ModifierTexts ==
    { Rep(\H61, k) \o <<e, m>> :
         k \in 0..MaxRun,
         e \in { \H1F468, \H2764, \H1F44B },
         m \in { \H1F3FB, \H1F3FD, \HFE0F } }

\* Any two chars, then 'a', then a char without category that is not ASCII
\* (MAN, in the emoji range, or ETHIOPIC SYLLABLE SEE): what precedes a
\* buffered ASCII char when the next decision is taken
AfterAsciiTexts ==
    { p \o <<\H61, c>> : p \in Seqs(Alphabet, 2), c \in { \H1F468, \H1234 } }

Texts ==
    ShortTexts \cup RunTexts \cup ZwjTexts \cup AnsiTexts \cup {AnsiExample}
      \cup ModifierTexts \cup {DocExample} \cup AfterAsciiTexts

\* The texts two iterators are run over side by side
PairTexts ==
    Seqs({ \H61, \H5B, ESC, \H0301, \H1F468 }, MaxLen + 1)
      \cup { h \o Rep(\H0301, k) \o t :
                h \in {<<>>, <<ESC, \H61>>},
                k \in MAX_GRAPHEME_SIZE..MaxRun,
                t \in {<<>>, <<ESC, \H61>>, <<ESC, \H0301, \H61>>} }
      \cup {AnsiExample}

---------------------------------------------------------------------------
\* Longest text of the two iterators that run over inputs of their own
MaxIndepLen == 2

\* 'a', ESC and a regional indicator: chars that lead to each state of the
\* iterator and one whose boundary depends on prev_category
IndepTexts == Seqs({ \H61, ESC, \H1F1E6 }, MaxIndepLen)

(* The iterator as a state machine *)

Instances == DOMAIN iter

InitWith(ts) ==
    /\ text = ts
    /\ \E flags \in [DOMAIN ts -> BOOLEAN] :
          iter = [i \in DOMAIN ts |-> new(ts[i], flags[i])]
    /\ ret = [i \in DOMAIN ts |-> NotCalled]
    /\ items = [i \in DOMAIN ts |-> <<>>]

\* One iterator over any of the texts, with either count_ansi
Init == \E t \in Texts : InitWith([i \in {1} |-> t])

\* Two iterators over the same text: 1 with count_ansi = false, 2 with
\* count_ansi = true
InitPair ==
    \E t \in PairTexts :
        /\ text = [i \in {1, 2} |-> t]
        /\ iter = [i \in {1, 2} |-> new(t, i = 2)]
        /\ ret = [i \in {1, 2} |-> NotCalled]
        /\ items = [i \in {1, 2} |-> <<>>]

\* NextChar handing an error to the caller and keeping a second copy of it
NextChar_reports_error_twice(i) ==
    /\ iter[i].chars # <<>>
    /\ LET c == Head(iter[i].chars)
           taken == [iter[i] EXCEPT !.chars = Tail(iter[i].chars)]
           r == process_char(taken, c)
           out == IF r.result.tag = "OkSome" THEN SomeOk(r.result.val)
                  ELSE IF r.result.tag = "Err" THEN SomeErr(r.result.val)
                  ELSE Continue
       IN /\ iter' = [iter EXCEPT ![i] = r.self]
          /\ ret' = [ret EXCEPT ![i] = out]
          /\ items' = [items EXCEPT ![i] =
                          IF out = Continue THEN @
                          ELSE IF r.result.tag = "Err" THEN Append(Append(@, out), out)
                          ELSE Append(@, out)]
    /\ UNCHANGED text

\* NextChar looking at the char without taking it when process_char fails
NextChar_error_keeps_char(i) ==
    /\ iter[i].chars # <<>>
    /\ LET c == Head(iter[i].chars)
           taken == [iter[i] EXCEPT !.chars = Tail(iter[i].chars)]
           r == process_char(taken, c)
           out == IF r.result.tag = "OkSome" THEN SomeOk(r.result.val)
                  ELSE IF r.result.tag = "Err" THEN SomeErr(r.result.val)
                  ELSE Continue
       IN /\ iter' = [iter EXCEPT ![i] =
                         IF r.result.tag = "Err"
                         THEN [r.self EXCEPT !.chars = iter[i].chars]
                         ELSE r.self]
          /\ ret' = [ret EXCEPT ![i] = out]
          /\ items' = [items EXCEPT ![i] =
                          IF out = Continue THEN @ ELSE Append(@, out)]
    /\ UNCHANGED text

\* NextChar with prev_category kept in one place for all iterators
NextChar_shared_prev_category(i) ==
    /\ iter[i].chars # <<>>
    /\ LET c == Head(iter[i].chars)
           taken == [iter[i] EXCEPT !.chars = Tail(iter[i].chars)]
           r == process_char(taken, c)
           out == IF r.result.tag = "OkSome" THEN SomeOk(r.result.val)
                  ELSE IF r.result.tag = "Err" THEN SomeErr(r.result.val)
                  ELSE Continue
       IN /\ iter' = [j \in DOMAIN iter |->
                         IF j = i THEN r.self
                         ELSE [iter[j] EXCEPT !.prev_category = r.self.prev_category]]
          /\ ret' = [ret EXCEPT ![i] = out]
          /\ items' = [items EXCEPT ![i] =
                          IF out = Continue THEN @ ELSE Append(@, out)]
    /\ UNCHANGED text

\* next(): `while let Some(c) = self.chars.next()` finds a char and hands it
\* to process_char
NextChar(i) ==
    /\ iter[i].chars # <<>>
    /\ LET c == Head(iter[i].chars)
           taken == [iter[i] EXCEPT !.chars = Tail(iter[i].chars)]
           r == process_char(taken, c)
           out == IF r.result.tag = "OkSome" THEN SomeOk(r.result.val)
                  ELSE IF r.result.tag = "Err" THEN SomeErr(r.result.val)
                  ELSE Continue
       IN /\ iter' = [iter EXCEPT ![i] = r.self]
          /\ ret' = [ret EXCEPT ![i] = out]
          /\ items' = [items EXCEPT ![i] =
                          IF out = Continue THEN @ ELSE Append(@, out)]
    /\ UNCHANGED text

\* NextFlush without `self.buffer_len = 0`
NextFlush_keeps_buffer(i) ==
    /\ iter[i].chars = <<>>
    /\ iter[i].buffer_len > 0
    /\ LET grapheme == Grapheme(iter[i].buffer, iter[i].buffer_len) IN
          /\ iter' = iter
          /\ ret' = [ret EXCEPT ![i] = SomeOk(grapheme)]
          /\ items' = [items EXCEPT ![i] = Append(@, SomeOk(grapheme))]
    /\ UNCHANGED text

\* next(): the source is exhausted and the buffer holds a cluster
NextFlush(i) ==
    /\ iter[i].chars = <<>>
    /\ iter[i].buffer_len > 0
    /\ LET grapheme == Grapheme(iter[i].buffer, iter[i].buffer_len) IN
          /\ iter' = [iter EXCEPT ![i].buffer_len = 0]
          /\ ret' = [ret EXCEPT ![i] = SomeOk(grapheme)]
          /\ items' = [items EXCEPT ![i] = Append(@, SomeOk(grapheme))]
    /\ UNCHANGED text

\* NextNone closing an escape sequence left open with its token
NextNone_closes_open_sequence(i) ==
    /\ iter[i].chars = <<>>
    /\ iter[i].buffer_len = 0
    /\ IF state(iter[i]) = STATE_IN_ANSI /\ count_ansi(iter[i])
       THEN LET marked == [iter[i] EXCEPT !.buffer[0] = ESC] IN
               /\ iter' = [iter EXCEPT ![i] = set_state(marked, STATE_START)]
               /\ ret' = [ret EXCEPT ![i] = SomeOk(Grapheme(marked.buffer, 1))]
               /\ items' = [items EXCEPT ![i] = Append(@, SomeOk(Grapheme(marked.buffer, 1)))]
       ELSE /\ ret' = [ret EXCEPT ![i] = None]
            /\ UNCHANGED <<iter, items>>
    /\ UNCHANGED text

\* next(): the source is exhausted and the buffer is empty
NextNone(i) ==
    /\ iter[i].chars = <<>>
    /\ iter[i].buffer_len = 0
    /\ ret' = [ret EXCEPT ![i] = None]
    /\ UNCHANGED <<text, iter, items>>

Next ==
    \/ \E i \in Instances : NextChar(i)
    \/ \E i \in Instances : NextFlush(i)
    \/ \E i \in Instances : NextNone(i)

Spec == Init /\ [][Next]_vars

\* Two iterators, each over a text and with a count_ansi of its own
InitIndep ==
    \E t1, t2 \in IndepTexts : InitWith([i \in {1, 2} |-> IF i = 1 THEN t1 ELSE t2])

SpecIndep == InitIndep /\ [][Next]_vars

SpecPair == InitPair /\ [][Next]_vars

---------------------------------------------------------------------------
(* Vocabulary of the properties *)

\* next() has returned None: the iteration is over
Exhausted(i) == ret[i] = None

IsCluster(it) == it.tag = "SomeOk"
IsError(it) == it.tag = "SomeErr"

TypeOK ==
    \A i \in Instances :
        /\ iter[i].buffer_len \in 0..MAX_GRAPHEME_SIZE
        /\ state(iter[i]) \in {STATE_START, STATE_IN_GRAPHEME, STATE_IN_ANSI}

\* The chars of text[i] that the Chars iterator has handed out
Consumed(i) == Len(text[i]) - Len(iter[i].chars)

\* The byte offset of the k-th char of t: the encoded lengths before it
RECURSIVE ByteOffset(_, _)
ByteOffset(t, k) == IF k <= 1 THEN 0 ELSE ByteOffset(t, k - 1) + len_utf8(t[k - 1])

\* Instance i takes a step of next()
Stepped(i) == iter'[i] # iter[i] \/ ret'[i] # ret[i]

\* items[i] is the clusters `expected` (each a sequence of chars) as far as
\* it has come, and all of them once the iteration is over
YieldsClusters(i, expected) ==
    /\ Len(items[i]) <= Len(expected)
    /\ \A k \in 1..Len(items[i]) :
          IsCluster(items[i][k]) /\ as_chars(items[i][k].val) = expected[k]
    /\ Exhausted(i) => Len(items[i]) = Len(expected)

---------------------------------------------------------------------------
(* C1 *)

IsPlainAscii(t) == \A k \in 1..Len(t) : is_ascii(t[k]) /\ t[k] # ESC

\* C1: for every input of ASCII chars other than ESC, with either
\* count_ansi, the iterator yields no error and one cluster per char, each
\* of length 1, in the order of the input.
C1_AsciiOneClusterPerChar ==
    \A i \in Instances :
        IsPlainAscii(text[i]) => YieldsClusters(i, [k \in 1..Len(text[i]) |-> <<text[i][k]>>])

C1_Witness ==
    \E i \in Instances :
        /\ IsPlainAscii(text[i])
        /\ Len(text[i]) >= 5
        /\ \E k \in 1..Len(text[i]) : text[i][k] # text[i][1]
        /\ Exhausted(i)
        /\ Len(items[i]) = Len(text[i])

---------------------------------------------------------------------------
(* C2 *)

\* one char of category zero, then 1 to 7 chars of category EXTEND
IsBaseThenMarks(t) ==
    /\ Len(t) \in 2..MAX_GRAPHEME_SIZE
    /\ char_category(t[1]) = 0
    /\ \A k \in 2..Len(t) : char_category(t[k]) = EXTEND

\* C2 as claimed: every base of category zero followed by 1 to 7 EXTEND
\* marks yields one cluster holding all of them, and no error.  ESC has
\* category zero and starts an escape sequence instead.
C2_AnyBaseWithMarks ==
    \A i \in Instances :
        IsBaseThenMarks(text[i]) => YieldsClusters(i, <<text[i]>>)

\* C2, amended: for every input made of one base char of category zero
\* other than ESC followed by k EXTEND chars, 1 <= k <= 7, the iterator
\* yields exactly one cluster, the base followed by all k marks in their
\* order, and no error.
C2_BaseWithMarksIsOneCluster ==
    \A i \in Instances :
        (IsBaseThenMarks(text[i]) /\ text[i][1] # ESC) => YieldsClusters(i, <<text[i]>>)

C2_Witness ==
    \E i \in Instances :
        /\ IsBaseThenMarks(text[i])
        /\ text[i][1] # ESC
        /\ Len(text[i]) = MAX_GRAPHEME_SIZE
        /\ Exhausted(i)
        /\ Len(items[i]) = 1
        /\ as_chars(items[i][1].val) = text[i]

---------------------------------------------------------------------------
(* C3 *)

\* emoji-range chars, each followed by any number of emoji modifiers,
\* joined by ZWJ
IsZwjSequence(t) ==
    /\ Len(t) >= 1
    /\ is_emoji(t[1])
    /\ \A k \in 2..Len(t) :
          IF t[k] = \H200D
          THEN k < Len(t) /\ t[k - 1] # \H200D /\ is_emoji(t[k + 1])
          ELSE IF t[k - 1] = \H200D
          THEN is_emoji(t[k])
          ELSE char_category(t[k]) = EMOJI_MOD

\* C3: every input that is a ZWJ-joined emoji sequence of at most 8 scalar
\* values yields exactly one cluster holding all of them, and no error.
C3_ZwjSequenceIsOneCluster ==
    \A i \in Instances :
        (IsZwjSequence(text[i]) /\ Len(text[i]) <= MAX_GRAPHEME_SIZE)
            => YieldsClusters(i, <<text[i]>>)

C3_Witness ==
    \E i \in Instances :
        /\ IsZwjSequence(text[i])
        /\ Len(text[i]) = MAX_GRAPHEME_SIZE
        /\ Cardinality({k \in 1..Len(text[i]) : text[i][k] = \H200D}) >= 2
        /\ \E k \in 1..Len(text[i]) : text[i][k] = \HFE0F
        /\ Exhausted(i)
        /\ Len(items[i]) = 1
        /\ as_chars(items[i][1].val) = text[i]

---------------------------------------------------------------------------
(* C4 *)

NoEsc(t) == \A k \in 1..Len(t) : t[k] # ESC

\* C4 as claimed: two consecutive REGIONAL chars never have a cluster
\* boundary between them.  In a text without escape sequences two clusters
\* that follow each other in the output are next to each other in the text,
\* so no cluster ends with a REGIONAL char when the next one starts with one;
\* and a text of exactly two regional indicators is one cluster of length 2.
C4_FlagPairIsNeverSplit ==
    \A i \in Instances :
        /\ NoEsc(text[i]) =>
              \A k \in 1..(Len(items[i]) - 1) :
                  (IsCluster(items[i][k]) /\ IsCluster(items[i][k + 1])) =>
                      ~ /\ char_category(items[i][k].val.chars[items[i][k].val.len - 1]) = REGIONAL
                        /\ char_category(items[i][k + 1].val.chars[0]) = REGIONAL
        /\ ( /\ Len(text[i]) = 2
             /\ char_category(text[i][1]) = REGIONAL
             /\ char_category(text[i][2]) = REGIONAL )
              => YieldsClusters(i, <<text[i]>>)

---------------------------------------------------------------------------
(* C5 *)

\* C5: when a 9th scalar value arrives for a cluster that holds 8 buffered
\* chars (any char that is not ESC: ESC is never appended, it ends the
\* cluster), next() returns BufferOverflow with the byte offset of that char
\* in the input and its encoded length.
C5_NinthCharOverflows ==
    [][ \A i \in Instances :
          ( /\ Stepped(i)
            /\ iter[i].chars # <<>>
            /\ iter[i].buffer_len = MAX_GRAPHEME_SIZE
            /\ Head(iter[i].chars) # ESC )
          => ret'[i] = SomeErr(buffer_overflow(ByteOffset(text[i], Consumed(i) + 1),
                                               len_utf8(Head(iter[i].chars)))) ]_vars

C5_Witness ==
    \E i \in Instances :
        /\ IsError(ret[i])
        /\ ret[i].val.kind = "BufferOverflow"
        /\ ret[i].val.offset = ByteOffset(text[i], Consumed(i))
        /\ ret[i].val.offset > MAX_GRAPHEME_SIZE
        /\ ret[i].val.sequence_len = 2
        /\ iter[i].buffer_len = MAX_GRAPHEME_SIZE
        /\ Consumed(i) = MAX_GRAPHEME_SIZE + 1

---------------------------------------------------------------------------
(* C6 *)

\* C6 as claimed: BufferOverflow is returned only when a cluster would need
\* more than 8 code points: whenever it is returned for a char c, c is not
\* ASCII and the boundary rules report no boundary before c.
C6_OverflowOnlyWhenClusterGrows ==
    [][ \A i \in Instances :
          ( /\ Stepped(i)
            /\ IsError(ret'[i])
            /\ ret'[i].val.kind = "BufferOverflow" )
          => LET c == Head(iter[i].chars) IN
             /\ ~is_ascii(c)
             /\ ~boundary_rules(iter[i].prev_category, char_category(c), c) ]_vars

---------------------------------------------------------------------------
(* C7 *)

\* ASCII only, and every ESC is followed, somewhere, by an ASCII letter
IsWellFormedAnsi(t) ==
    \A k \in 1..Len(t) :
        /\ is_ascii(t[k])
        /\ t[k] = ESC => \E j \in (k + 1)..Len(t) : is_ascii_alphabetic(t[j])

\* The place of the first ASCII letter of t from place k on
RECURSIVE Terminator(_, _)
Terminator(t, k) == IF is_ascii_alphabetic(t[k]) THEN k ELSE Terminator(t, k + 1)

\* The clusters of a well-formed text from place k on: <<ESC>> for an escape
\* sequence when counted, the char itself for a char of text
RECURSIVE AnsiClusters(_, _, _)
AnsiClusters(t, k, counted) ==
    IF k > Len(t) THEN <<>>
    ELSE IF t[k] = ESC
    THEN (IF counted THEN << <<ESC>> >> ELSE <<>>)
            \o AnsiClusters(t, Terminator(t, k + 1) + 1, counted)
    ELSE << <<t[k]>> >> \o AnsiClusters(t, k + 1, counted)

\* C7: for every input of non-ESC ASCII chars and well-formed escape
\* sequences, with count_ansi the iterator yields one cluster per char of
\* text and one per escape sequence, in the order of the input (5 for
\* "\x1b[31mred\x1b[0m"), without it only the clusters of the text (3 for
\* the same input), and no error either way.
C7_AnsiSequencesAreTokens ==
    \A i \in Instances :
        /\ IsWellFormedAnsi(text[i])
              => YieldsClusters(i, AnsiClusters(text[i], 1, count_ansi(iter[i])))
        /\ (text[i] = AnsiExample /\ Exhausted(i))
              => Len(items[i]) = IF count_ansi(iter[i]) THEN 5 ELSE 3

C7_Witness ==
    \E i \in Instances :
        /\ text[i] = AnsiExample
        /\ count_ansi(iter[i])
        /\ Exhausted(i)
        /\ Len(items[i]) = 5
        /\ as_chars(items[i][1].val) = <<ESC>>
        /\ as_chars(items[i][2].val) = <<\H72>>
        /\ as_chars(items[i][5].val) = <<ESC>>

---------------------------------------------------------------------------
(* C8 *)

\* What a caller sees of an item: a cluster's valid chars, an error's fields
Seen(it) == IF IsCluster(it) THEN <<"cluster", as_chars(it.val)>> ELSE <<"error", it.val>>

IsEscToken(it) == IsCluster(it) /\ as_chars(it.val) = <<ESC>>

\* its without the clusters that are exactly <<ESC>>
RECURSIVE WithoutEscTokens(_)
WithoutEscTokens(its) ==
    IF its = <<>> THEN <<>>
    ELSE IF IsEscToken(Head(its)) THEN WithoutEscTokens(Tail(its))
    ELSE <<Seen(Head(its))>> \o WithoutEscTokens(Tail(its))

\* C8: for every input, the items produced with count_ansi = false are the
\* items produced with count_ansi = true without the clusters that are
\* exactly [ESC]: the other clusters and all errors are the same, in the
\* same order.
C8_CountAnsiOnlySelectsTokens ==
    ( /\ Instances = {1, 2}
      /\ Exhausted(1)
      /\ Exhausted(2) )
    => /\ WithoutEscTokens(items[2]) = [k \in 1..Len(items[1]) |-> Seen(items[1][k])]
       /\ \A k \in 1..Len(items[1]) : ~IsEscToken(items[1][k])

C8_Witness ==
    /\ Instances = {1, 2}
    /\ Exhausted(1)
    /\ Exhausted(2)
    /\ \E k \in 1..Len(items[2]) : IsEscToken(items[2][k])
    /\ \E k \in 1..Len(items[1]) : IsError(items[1][k])
    /\ \E k \in 1..Len(items[1]) : IsCluster(items[1][k])
    /\ Len(items[2]) > Len(items[1])

---------------------------------------------------------------------------
(* C9 *)

\* C9: whenever a non-ASCII char c is processed in state InAnsi, next()
\* returns InvalidAnsiSequence with the byte offset of c in the input and
\* the encoded length of c.
C9_NonAsciiInAnsiIsAnError ==
    [][ \A i \in Instances :
          ( /\ Stepped(i)
            /\ iter[i].chars # <<>>
            /\ state(iter[i]) = STATE_IN_ANSI
            /\ ~is_ascii(Head(iter[i].chars)) )
          => ret'[i] = SomeErr(invalid_ansi(ByteOffset(text[i], Consumed(i) + 1),
                                            len_utf8(Head(iter[i].chars)))) ]_vars

C9_Witness ==
    \E i \in Instances :
        /\ IsError(ret[i])
        /\ ret[i].val.kind = "InvalidAnsiSequence"
        /\ ret[i].val.offset = 2
        /\ ret[i].val.sequence_len = 3
        /\ text[i][1] = ESC
        /\ text[i][3] = \H1234

---------------------------------------------------------------------------
(* C10 *)

\* What is left to do: two per char of the source, one for a cluster in the
\* buffer, one for the None still to come
Remaining(i) ==
    2 * Len(iter[i].chars)
      + (IF iter[i].buffer_len > 0 THEN 1 ELSE 0)
      + (IF Exhausted(i) THEN 0 ELSE 1)

\* C10: no error is fatal.  A step that returns Err has consumed the
\* offending char: the source holds the chars after it and position is past
\* it.  The call after an Err goes on with the char right after the
\* offending one, if there is one.  Every step brings the end of the
\* iteration nearer, so None is returned after finitely many calls.
C10_ErrorsAreNotFatal ==
    [][ \A i \in Instances :
          Stepped(i) =>
            /\ IsError(ret'[i]) =>
                  /\ iter[i].chars # <<>>
                  /\ iter'[i].chars = Tail(iter[i].chars)
                  /\ iter'[i].position = ret'[i].val.offset + ret'[i].val.sequence_len
                  /\ iter'[i].position = ByteOffset(text[i], Consumed(i) + 2)
            /\ (IsError(ret[i]) /\ iter[i].chars # <<>>) =>
                  /\ iter'[i].chars = Tail(iter[i].chars)
                  /\ iter'[i].position = iter[i].position + len_utf8(Head(iter[i].chars))
            /\ Remaining(i)' < Remaining(i) ]_vars

C10_Witness ==
    \E i \in Instances :
        /\ Exhausted(i)
        /\ \E j \in 1..Len(items[i]) :
              /\ IsError(items[i][j])
              /\ items[i][j].val.kind = "InvalidAnsiSequence"
              /\ \E k \in (j + 1)..Len(items[i]) : IsCluster(items[i][k])
        /\ \E j \in 1..Len(items[i]) :
              /\ IsError(items[i][j])
              /\ items[i][j].val.kind = "BufferOverflow"
              /\ \E k \in (j + 1)..Len(items[i]) :
                    IsCluster(items[i][k]) /\ items[i][k].val.len = 1

---------------------------------------------------------------------------
(* C11 *)

\* The chars held in the buffer, in order
Buffered(i) == [k \in 1..iter[i].buffer_len |-> iter[i].buffer[k - 1]]

\* C11: once the source is exhausted, a step of next() with n buffered chars
\* (1 <= n <= 8) returns exactly one cluster, whose as_chars() is those n
\* chars in order, and empties the buffer; a step with an empty buffer returns
\* None and changes nothing else; and once None was returned, every later
\* call returns None again, with no item added and no state changed.
C11_FlushThenNoneForever ==
    [][\A i \in Instances :
          /\ (Stepped(i) /\ iter[i].chars = <<>>) =>
                IF iter[i].buffer_len >= 1
                THEN /\ iter[i].buffer_len <= MAX_GRAPHEME_SIZE
                     /\ IsCluster(ret'[i])
                     /\ as_chars(ret'[i].val) = Buffered(i)
                     /\ items'[i] = Append(items[i], ret'[i])
                     /\ iter'[i].buffer_len = 0
                     /\ iter'[i].chars = <<>>
                ELSE /\ ret'[i] = None
                     /\ items'[i] = items[i]
                     /\ iter'[i] = iter[i]
          /\ Exhausted(i) =>
                /\ ret'[i] = None
                /\ items'[i] = items[i]
                /\ iter'[i] = iter[i]
          /\ ret'[i] = None => iter[i].chars = <<>> /\ iter[i].buffer_len = 0
    ]_vars

\* An iteration over an ESC-free text has ended with the flush of a cluster
\* of several chars, the last of them the last char of the text
C11_Witness ==
    \E i \in Instances :
        /\ Exhausted(i)
        /\ NoEsc(text[i])
        /\ Len(items[i]) >= 2
        /\ LET last == items[i][Len(items[i])] IN
              /\ IsCluster(last)
              /\ last.val.len >= 2
              /\ last.val.chars[last.val.len - 1] = text[i][Len(text[i])]
              /\ iter[i].buffer_len = 0

---------------------------------------------------------------------------
(* C12 *)

\* C12: every Grapheme the iterator has returned, whichever path emitted it
\* (boundary, ESC flush, synthetic ANSI token, end-of-input flush), has
\* len() between 1 and 8; an empty Grapheme is never emitted.
C12_ClusterLenFromOneToEight ==
    \A i \in Instances :
        /\ \A k \in 1..Len(items[i]) :
              IsCluster(items[i][k]) =>
                 /\ items[i][k].val.len \in 1..MAX_GRAPHEME_SIZE
                 /\ Len(as_chars(items[i][k].val)) = items[i][k].val.len
        /\ IsCluster(ret[i]) => ret[i].val.len \in 1..MAX_GRAPHEME_SIZE

\* One iteration has emitted a cluster of one char at a boundary, then a full
\* cluster of 8 on an ESC, then the ANSI token
C12_Witness ==
    \E i \in Instances :
        /\ Exhausted(i)
        /\ Len(items[i]) >= 3
        /\ \E k \in 2..(Len(items[i]) - 1) :
              /\ IsCluster(items[i][k - 1]) /\ items[i][k - 1].val.len = 1
              /\ IsCluster(items[i][k])
              /\ items[i][k].val.len = MAX_GRAPHEME_SIZE
              /\ IsEscToken(items[i][k + 1])

---------------------------------------------------------------------------
(* C13 *)

\* A char has been stored in the buffer by the step: the buffer grew by one
\* slot, or was restarted with the char carried over a boundary or an
\* ANSI token
Pushed(i) ==
    \/ iter'[i].buffer_len = iter[i].buffer_len + 1
    \/ iter'[i].buffer # iter[i].buffer

---------------------------------------------------------------------------
(* C14 *)

\* Byte length of the whole text
ByteLen(t) == ByteOffset(t, Len(t) + 1)

\* C14: position never decreases and, in every state, equals the sum of the
\* encoded byte lengths of the chars consumed so far, whether the last one
\* gave a cluster, nothing or an error; the offset of every error is the sum
\* of the byte lengths of the chars consumed strictly before the offending
\* char, and its sequence_len is the byte length of that char, so
\* offset + sequence_len never exceeds the byte length of the input.
C14_CursorBookkeeping ==
    [][\A i \in Instances :
          /\ iter[i].position = ByteOffset(text[i], Consumed(i) + 1)
          /\ iter'[i].position = ByteOffset(text'[i], Consumed(i)' + 1)
          /\ iter'[i].position >= iter[i].position
          /\ (Stepped(i) /\ IsError(ret'[i])) =>
                /\ ret'[i].val.offset = ByteOffset(text[i], Consumed(i) + 1)
                /\ ret'[i].val.sequence_len = len_utf8(text[i][Consumed(i) + 1])
                /\ ret'[i].val.offset + ret'[i].val.sequence_len = iter'[i].position
          /\ \A k \in 1..Len(items'[i]) :
                IsError(items'[i][k]) =>
                   items'[i][k].val.offset + items'[i][k].val.sequence_len
                      <= ByteLen(text[i])
    ]_vars

\* A text with multi-byte chars has been consumed to its end, and an error
\* was reported for a multi-byte char whose byte offset is beyond its char
\* index
C14_Witness ==
    \E i \in Instances :
        /\ Exhausted(i)
        /\ iter[i].position = ByteLen(text[i])
        /\ iter[i].position > Len(text[i])
        /\ \E k \in 1..Len(items[i]) :
              /\ IsError(items[i][k])
              /\ items[i][k].val.offset > 0
              /\ \E n \in 2..Len(text[i]) :
                    /\ items[i][k].val.offset = ByteOffset(text[i], n)
                    /\ items[i][k].val.offset > n - 1
                    /\ items[i][k].val.sequence_len > 1

---------------------------------------------------------------------------
(* C15 *)

\* ASCII chars other than ESC, then one emoji of category zero, then one
\* char of category EMOJI_MOD
IsAsciiThenEmojiAndModifier(t) ==
    /\ Len(t) >= 2
    /\ \A k \in 1..(Len(t) - 2) : is_ascii(t[k]) /\ t[k] # ESC
    /\ is_emoji(t[Len(t) - 1]) /\ char_category(t[Len(t) - 1]) = 0
    /\ char_category(t[Len(t)]) = EMOJI_MOD

\* One cluster per ASCII char, then the emoji with its modifier
AsciiThenEmojiClusters(t) ==
    [k \in 1..(Len(t) - 1) |->
        IF k < Len(t) - 1 THEN <<t[k]>> ELSE <<t[k], t[k + 1]>>]

\* C15: a char of category EMOJI_MOD never starts a new cluster: when it
\* arrives while a cluster is buffered and has room, nothing is emitted and
\* the char is appended to that cluster.  For ASCII text followed by an emoji
\* and a modifier (as in "Hello " + waving hand + skin tone) the clusters are
\* one per ASCII char plus one, the last holding the emoji and its modifier.
C15_EmojiModifierJoins ==
    [][\A i \in Instances :
          /\ (Stepped(i) /\ iter[i].chars # <<>>
                /\ char_category(Head(iter[i].chars)) = EMOJI_MOD
                /\ iter[i].buffer_len \in 1..(MAX_GRAPHEME_SIZE - 1)) =>
                /\ ret'[i] = Continue
                /\ items'[i] = items[i]
                /\ Buffered(i)' = Append(Buffered(i), Head(iter[i].chars))
          /\ IsAsciiThenEmojiAndModifier(text[i]) =>
                /\ YieldsClusters(i, AsciiThenEmojiClusters(text[i]))
                /\ YieldsClusters(i, AsciiThenEmojiClusters(text[i]))'
    ]_vars

\* The example of the documentation has given its 7 clusters, the last one
\* the waving hand with its skin tone
C15_Witness ==
    \E i \in Instances :
        /\ text[i] = DocExample
        /\ Exhausted(i)
        /\ Len(items[i]) = 7
        /\ IsCluster(items[i][7])
        /\ as_chars(items[i][7].val) = << \H1F44B, \H1F3FD >>

---------------------------------------------------------------------------
(* C16 *)

\* The k-th char of t belongs to an escape sequence: an ESC at or before it
\* has no ASCII letter (the terminator) between itself and the char
InEscape(t, k) ==
    \E j \in 1..k :
        /\ t[j] = ESC
        /\ \A m \in (j + 1)..(k - 1) : ~is_ascii_alphabetic(t[m])

\* The byte offsets of the chars that produced an error so far
ErrorOffsets(i) ==
    { items[i][k].val.offset : k \in { j \in 1..Len(items[i]) : IsError(items[i][j]) } }

\* The first n chars of text[i] without the chars of escape sequences and
\* without the chars that produced an error
RECURSIVE KeptUpTo(_, _)
KeptUpTo(i, n) ==
    IF n = 0 THEN <<>>
    ELSE IF InEscape(text[i], n) \/ ByteOffset(text[i], n) \in ErrorOffsets(i)
         THEN KeptUpTo(i, n - 1)
         ELSE Append(KeptUpTo(i, n - 1), text[i][n])

\* as_chars() of the clusters among its, one after the other, the synthetic
\* [ESC] tokens excluded
RECURSIVE ClusterChars(_)
ClusterChars(its) ==
    IF its = <<>> THEN <<>>
    ELSE IF IsCluster(Head(its)) /\ ~IsEscToken(Head(its))
         THEN as_chars(Head(its).val) \o ClusterChars(Tail(its))
         ELSE ClusterChars(Tail(its))

\* C16: nothing is lost, duplicated or reordered.  In every state, the chars
\* of the clusters emitted so far ([ESC] tokens excluded) followed by the
\* chars in the buffer are the chars consumed so far minus the chars of
\* escape sequences (ESC through terminator) and minus the chars that
\* produced an error; so once an input without ESC and without error is
\* exhausted, the emitted clusters concatenate to the input.
C16_NothingLostOrReordered ==
    \A i \in Instances :
        /\ ClusterChars(items[i]) \o Buffered(i) = KeptUpTo(i, Consumed(i))
        /\ ( /\ Exhausted(i)
             /\ NoEsc(text[i])
             /\ \A k \in 1..Len(items[i]) : IsCluster(items[i][k]) )
           => ClusterChars(items[i]) = text[i]

\* An iteration with an escape sequence, its token, an error of each kind
\* and a cluster of several chars has ended, and part of the text was left
\* out of the clusters
C16_Witness ==
    \E i \in Instances :
        /\ Exhausted(i)
        /\ \E k \in 1..Len(items[i]) : IsEscToken(items[i][k])
        /\ \E k \in 1..Len(items[i]) :
              IsError(items[i][k]) /\ items[i][k].val.kind = "BufferOverflow"
        /\ \E k \in 1..Len(items[i]) :
              IsError(items[i][k]) /\ items[i][k].val.kind = "InvalidAnsiSequence"
        /\ \E k \in 1..Len(items[i]) :
              IsCluster(items[i][k]) /\ items[i][k].val.len >= 2
        /\ Len(ClusterChars(items[i])) >= MAX_GRAPHEME_SIZE
        /\ Len(ClusterChars(items[i])) < Len(text[i]) - 3

---------------------------------------------------------------------------
(* C17 *)

\* C17: the produced sequence is finite.  Every step of next() either takes
\* exactly one char from the source or, with the source exhausted, returns
\* the flushed cluster or None; each step adds at most one item and lowers
\* a measure that starts at no more than 2n + 2 for an input of n chars, so
\* None is returned after finitely many calls; the items so far plus the
\* cluster still buffered never outnumber the chars consumed, so the items
\* (clusters plus errors) are at most n in all.
C17_FinitelyManyItems ==
    [][\A i \in Instances :
          /\ Len(items[i]) + (IF iter[i].buffer_len > 0 THEN 1 ELSE 0) <= Consumed(i)
          /\ Len(items'[i]) + (IF iter'[i].buffer_len > 0 THEN 1 ELSE 0) <= Consumed(i)'
          /\ Len(items'[i]) <= Len(text[i])
          /\ Stepped(i) =>
                /\ \/ /\ iter[i].chars # <<>>
                      /\ iter'[i].chars = Tail(iter[i].chars)
                   \/ /\ iter[i].chars = <<>> /\ iter'[i].chars = <<>>
                      /\ IF iter[i].buffer_len > 0
                         THEN IsCluster(ret'[i]) ELSE ret'[i] = None
                /\ \/ items'[i] = items[i] /\ ret'[i] \in {Continue, None}
                   \/ items'[i] = Append(items[i], ret'[i])
                /\ Remaining(i) <= 2 * Len(text[i]) + 2
                /\ Remaining(i)' >= 0
                /\ Remaining(i)' < Remaining(i)
    ]_vars

\* An iteration over several chars, not all of them ASCII, has ended with as
\* many items as the input has chars
C17_Witness ==
    \E i \in Instances :
        /\ Exhausted(i)
        /\ Len(text[i]) >= 3
        /\ Len(items[i]) = Len(text[i])
        /\ \E k \in 1..Len(text[i]) : ~is_ascii(text[i][k])

---------------------------------------------------------------------------
(* C18 *)

\* The errors among the items of instance i
Errors(i) == { items[i][k].val : k \in { j \in 1..Len(items[i]) : IsError(items[i][j]) } }

\* C18: the accessors give back what the constructors were given.  For the
\* offset o and the length l that process_char passes when it fails, both
\* invalid_ansi(o, l) and buffer_overflow(o, l) report offset() = o and
\* sequence_length() = l, and so does the error returned; message() and
\* help() are the same for any two errors of one variant, whatever their
\* offset and length.
C18_ErrorAccessorsRoundTrip ==
    [][\A i \in Instances :
          (Stepped(i) /\ IsError(ret'[i])) =>
             LET o == iter[i].position
                 l == len_utf8(Head(iter[i].chars))
             IN /\ ret'[i].val \in {invalid_ansi(o, l), buffer_overflow(o, l)}
                /\ offset(ret'[i].val) = o
                /\ sequence_length(ret'[i].val) = l
                /\ \A e \in {invalid_ansi(o, l), buffer_overflow(o, l)} :
                      /\ offset(e) = o
                      /\ sequence_length(e) = l
                /\ \A e \in Errors(i)' :
                      /\ message(e) = message([e EXCEPT !.offset = o, !.sequence_len = l])
                      /\ help(e) = help([e EXCEPT !.offset = o, !.sequence_len = l])
                      /\ message(invalid_ansi(o, l)) = message(invalid_ansi(offset(e), sequence_length(e)))
                      /\ help(invalid_ansi(o, l)) = help(invalid_ansi(offset(e), sequence_length(e)))
                      /\ message(buffer_overflow(o, l)) = message(buffer_overflow(offset(e), sequence_length(e)))
                      /\ help(buffer_overflow(o, l)) = help(buffer_overflow(offset(e), sequence_length(e)))
    ]_vars

\* One iteration has returned an InvalidAnsiSequence and two BufferOverflow
\* errors that differ in offset and in length
C18_Witness ==
    \E i \in Instances :
        /\ \E e \in Errors(i) : e.kind = "InvalidAnsiSequence" /\ offset(e) # sequence_length(e)
        /\ \E e1, e2 \in Errors(i) :
              /\ e1.kind = "BufferOverflow" /\ e2.kind = "BufferOverflow"
              /\ offset(e1) # offset(e2)
              /\ sequence_length(e1) # sequence_length(e2)
              /\ message(e1) = message(e2)
              /\ help(e1) = help(e2)

---------------------------------------------------------------------------
(* C19 *)

\* The items of an iterator in state self that is run to its end with
\* nothing else going on, after the items acc: Iterator::collect over next()
RECURSIVE collect(_, _)
collect(self, acc) ==
    IF self.chars # <<>>
    THEN LET c == Head(self.chars)
             r == process_char([self EXCEPT !.chars = Tail(self.chars)], c)
         IN collect(r.self,
                    IF r.result.tag = "OkSome" THEN Append(acc, SomeOk(r.result.val))
                    ELSE IF r.result.tag = "Err" THEN Append(acc, SomeErr(r.result.val))
                    ELSE acc)
    ELSE IF self.buffer_len > 0
    THEN Append(acc, SomeOk(Grapheme(self.buffer, self.buffer_len)))
    ELSE acc

\* What iterator i yields when it is run alone over its text
Alone(i) == collect(new(text[i], count_ansi(iter[i])), <<>>)

IsPrefix(s, t) == Len(s) <= Len(t) /\ \A k \in 1..Len(s) : s[k] = t[k]

\* C19: iterators are independent.  However the steps of two iterators over
\* inputs of their own are interleaved, the items of each are at every
\* moment a prefix of the items it yields when run alone, and all of them
\* once it has returned None.
C19_InterleavingChangesNothing ==
    \A i \in Instances :
        /\ IsPrefix(items[i], Alone(i))
        /\ Exhausted(i) => items[i] = Alone(i)
        /\ (ret[i] # None /\ iter[i].chars = <<>> /\ iter[i].buffer_len = 0)
              => items[i] = Alone(i)

\* Iterator 1 is in the middle of its text with a char buffered while
\* iterator 2, over another text and with the other count_ansi, has run to
\* its end and yielded several items
C19_Witness ==
    /\ Instances = {1, 2}
    /\ text[1] # text[2]
    /\ count_ansi(iter[1]) # count_ansi(iter[2])
    /\ Consumed(1) = 1 /\ Len(text[1]) = 2 /\ iter[1].buffer_len = 1
    /\ Exhausted(2)
    /\ Len(items[2]) >= 2
    /\ items[2] = Alone(2)

---------------------------------------------------------------------------
(* C20 *)

\* C20 as claimed: at every boundary decision, that is whenever a char c
\* that is not ASCII arrives while a cluster with room is buffered, the
\* remembered prev_category is char_category of the char buffered last, the
\* one right before c.  The code records the category only inside
\* is_boundary, which is not called for the first char of the input nor for
\* an ASCII char, so the remembered category can be that of an older char or
\* the initial 0.
C20_PrevCategoryIsLastBuffered ==
    [][\A i \in Instances :
          (/\ Stepped(i)
           /\ iter[i].chars # <<>>
           /\ ~is_ascii(Head(iter[i].chars))
           /\ state(iter[i]) = STATE_IN_GRAPHEME
           /\ iter[i].buffer_len \in 1..(MAX_GRAPHEME_SIZE - 1)) =>
             iter[i].prev_category
                = char_category(iter[i].buffer[iter[i].buffer_len - 1])
    ]_vars

---------------------------------------------------------------------------
(* C21 *)

\* A char c that is not ASCII arrives while a cluster with room is buffered:
\* the step in which is_boundary decides
AtDecision(i) ==
    /\ iter[i].chars # <<>>
    /\ ~is_ascii(Head(iter[i].chars))
    /\ state(iter[i]) = STATE_IN_GRAPHEME
    /\ iter[i].buffer_len \in 1..(MAX_GRAPHEME_SIZE - 1)

\* The char buffered last
LastBuffered(i) == iter[i].buffer[iter[i].buffer_len - 1]

\* The step appends the arriving char to the buffered cluster and emits
\* nothing
Joined(i) ==
    /\ ret'[i] = Continue
    /\ items'[i] = items[i]
    /\ Buffered(i)' = Append(Buffered(i), Head(iter[i].chars))

\* C21 as claimed: whenever the char buffered last has category PREPEND and
\* a char that is not ASCII arrives with room in the buffer, no boundary is
\* placed: the new char joins the cluster, wherever the PREPEND char stands
\* in the input, the very first position included.  In the code a PREPEND
\* char that opened the buffer has not had its category recorded.
C21_PrependJoinsNext ==
    [][\A i \in Instances :
          (/\ Stepped(i)
           /\ AtDecision(i)
           /\ char_category(LastBuffered(i)) = PREPEND) => Joined(i)
    ]_vars

---------------------------------------------------------------------------
(* C22 *)

\* The eight rules as a table: a boundary unless one of the seven joining
\* rules applies to (previous category, new category, new char in the emoji
\* range)
BoundaryTable(prev, category, emoji) ==
    ~ \/ category = ZWJ
      \/ prev = ZWJ /\ emoji
      \/ category = EXTEND
      \/ prev = REGIONAL /\ category = REGIONAL
      \/ category = EMOJI_MOD
      \/ category = SPACINGMARK
      \/ prev = PREPEND

\* The step emits the buffered cluster and restarts the buffer with the
\* arriving char
Split(i) ==
    /\ IsCluster(ret'[i])
    /\ as_chars(ret'[i].val) = Buffered(i)
    /\ items'[i] = Append(items[i], ret'[i])
    /\ Buffered(i)' = <<Head(iter[i].chars)>>

\* The categories char_category gives
Categories == {0, EXTEND, ZWJ, SPACINGMARK, PREPEND, REGIONAL, EMOJI_MOD}

\* C22: whenever is_boundary decides (a char that is not ASCII arrives with
\* 1 to 7 chars buffered), its decision for the remembered previous
\* category, the category of the new char and whether the new char is in
\* the emoji range is the one of the eight-rule table: the step splits if
\* the table says boundary and joins if not, and the category of the new
\* char is remembered.
C22_DecisionFollowsTable ==
    [][\A i \in Instances :
          (Stepped(i) /\ AtDecision(i)) =>
             LET c == Head(iter[i].chars) IN
             /\ IF BoundaryTable(iter[i].prev_category, char_category(c), is_emoji(c))
                THEN Split(i) ELSE Joined(i)
             /\ iter'[i].prev_category = char_category(c)
             /\ iter[i].prev_category \in Categories
    ]_vars

\* A regional indicator was split from the one before it by the default
\* rule (nothing remembered yet) and then joined by the next one through
\* the rule for two regional indicators
C22_Witness ==
    \E i \in Instances :
        /\ ret[i] = Continue
        /\ iter[i].prev_category = REGIONAL
        /\ Len(Buffered(i)) = 2
        /\ \A k \in 1..2 : char_category(Buffered(i)[k]) = REGIONAL
        /\ Len(items[i]) = 1
        /\ IsCluster(items[i][1])
        /\ as_chars(items[i][1].val) = <<text[i][1]>>
        /\ char_category(text[i][1]) = REGIONAL

---------------------------------------------------------------------------
(* C23 *)

\* C23 as claimed: when the buffer holds an ASCII char and a char of
\* category 0 that is not ASCII arrives, a boundary is reported whatever
\* came before the ASCII char: the ASCII char is emitted as a cluster of its
\* own.  In the code the decision uses the category remembered from before
\* the ASCII char, which may be ZWJ or PREPEND.
C23_BoundaryAfterAscii ==
    [][\A i \in Instances :
          (/\ Stepped(i)
           /\ AtDecision(i)
           /\ is_ascii(LastBuffered(i))
           /\ char_category(Head(iter[i].chars)) = 0) =>
             /\ Split(i)
             /\ as_chars(ret'[i].val) = <<LastBuffered(i)>>
    ]_vars

---------------------------------------------------------------------------
(* C24 *)

\* C24: an ASCII char other than ESC always forms a boundary against what is
\* buffered, and the boundary rules are not consulted.  Whenever it arrives
\* outside InAnsi with 1 to 7 chars buffered, exactly the buffered chars are
\* emitted as one cluster and the ASCII char becomes the only buffered char,
\* also when the remembered category is PREPEND or ZWJ; the remembered
\* category is left as it was.
C24_AsciiAlwaysSplits ==
    [][\A i \in Instances :
          (/\ Stepped(i)
           /\ iter[i].chars # <<>>
           /\ is_ascii(Head(iter[i].chars))
           /\ Head(iter[i].chars) # ESC
           /\ state(iter[i]) # STATE_IN_ANSI
           /\ iter[i].buffer_len \in 1..(MAX_GRAPHEME_SIZE - 1)) =>
             /\ Split(i)
             /\ ret'[i].val.len = iter[i].buffer_len
             /\ iter'[i].buffer_len = 1
             /\ state(iter'[i]) = STATE_IN_GRAPHEME
             /\ iter'[i].prev_category = iter[i].prev_category
    ]_vars

\* An ASCII char has cut off a cluster that ends in a PREPEND or ZWJ char
\* whose category was remembered, and is alone in the buffer
C24_Witness ==
    \E i \in Instances :
        /\ iter[i].prev_category \in {PREPEND, ZWJ}
        /\ Buffered(i) = << \H61 >>
        /\ IsCluster(ret[i])
        /\ char_category(ret[i].val.chars[ret[i].val.len - 1]) = iter[i].prev_category
        /\ ret[i].val.len >= 2

---------------------------------------------------------------------------
(* C25 *)

\* C25: ESC is handled alike in every state and for every buffer length
\* from 0 to 8.  If the buffer is not empty its chars, without ESC, are
\* emitted as one cluster and the buffer becomes empty; otherwise nothing is
\* emitted.  In both cases the state becomes InAnsi, the step returns no
\* error, the slots of the buffer are left as they were, and ESC is never
\* among the buffered chars.
C25_EscHandledAlikeEverywhere ==
    [][\A i \in Instances :
          /\ \A k \in 1..Len(Buffered(i)') : Buffered(i)'[k] # ESC
          /\ (Stepped(i) /\ iter[i].chars # <<>> /\ Head(iter[i].chars) = ESC) =>
                /\ state(iter[i]) \in {STATE_START, STATE_IN_GRAPHEME, STATE_IN_ANSI}
                /\ iter[i].buffer_len \in 0..MAX_GRAPHEME_SIZE
                /\ IF iter[i].buffer_len > 0
                   THEN /\ IsCluster(ret'[i])
                        /\ as_chars(ret'[i].val) = Buffered(i)
                        /\ items'[i] = Append(items[i], ret'[i])
                   ELSE /\ ret'[i] = Continue
                        /\ items'[i] = items[i]
                /\ iter'[i].buffer_len = 0
                /\ iter'[i].buffer = iter[i].buffer
                /\ state(iter'[i]) = STATE_IN_ANSI
                /\ count_ansi(iter'[i]) = count_ansi(iter[i])
                /\ iter'[i].prev_category = iter[i].prev_category
    ]_vars

\* ESC has been met in state Start (first char), in state InGrapheme with a
\* full buffer, which it flushed, and in state InAnsi
C25_Witness ==
    \E i \in Instances :
        /\ Len(text[i]) >= MAX_GRAPHEME_SIZE + 3
        /\ text[i][1] = ESC
        /\ text[i][Len(text[i]) - 1] = ESC
        /\ text[i][Len(text[i])] = ESC
        /\ iter[i].chars = <<>>
        /\ state(iter[i]) = STATE_IN_ANSI
        /\ Len(items[i]) >= 1
        /\ IsCluster(items[i][Len(items[i])])
        /\ items[i][Len(items[i])].val.len = MAX_GRAPHEME_SIZE

---------------------------------------------------------------------------
(* C26 *)

\* A char arrives in state InAnsi
InAnsiStep(i) ==
    /\ Stepped(i)
    /\ iter[i].chars # <<>>
    /\ state(iter[i]) = STATE_IN_ANSI

\* C26: in state InAnsi an ASCII letter ends the sequence.  The state
\* becomes Start, and an item is emitted if and only if count_ansi is set;
\* the item is a Grapheme of length 1 whose only char is ESC, whatever
\* parameter chars and terminator the sequence had.
C26_LetterEndsSequence ==
    [][\A i \in Instances :
          (InAnsiStep(i) /\ is_ascii_alphabetic(Head(iter[i].chars))) =>
             /\ state(iter'[i]) = STATE_START
             /\ iter'[i].buffer_len = 0
             /\ IF count_ansi(iter[i])
                THEN /\ IsCluster(ret'[i])
                     /\ ret'[i].val.len = 1
                     /\ as_chars(ret'[i].val) = <<ESC>>
                     /\ items'[i] = Append(items[i], ret'[i])
                ELSE /\ ret'[i] = Continue
                     /\ items'[i] = items[i]
    ]_vars

\* A sequence with parameter chars has been ended by a letter other than
\* the one before it in the text, and the token [ESC] was returned
C26_Witness ==
    \E i \in Instances :
        /\ count_ansi(iter[i])
        /\ IsEscToken(ret[i])
        /\ state(iter[i]) = STATE_START
        /\ Consumed(i) >= 3
        /\ is_ascii_alphabetic(text[i][Consumed(i)])
        /\ text[i][Consumed(i) - 1] = \H5B
        /\ text[i][Consumed(i) - 2] = ESC

---------------------------------------------------------------------------
(* C27 *)

\* C27: in state InAnsi an ASCII char that is neither a letter nor ESC emits
\* nothing and leaves the state, the buffer, buffer_len, count_ansi and the
\* remembered category as they were; only the char is taken and position
\* advances by one byte.
C27_ParameterCharChangesNothing ==
    [][\A i \in Instances :
          (/\ InAnsiStep(i)
           /\ is_ascii(Head(iter[i].chars))
           /\ ~is_ascii_alphabetic(Head(iter[i].chars))
           /\ Head(iter[i].chars) # ESC) =>
             /\ ret'[i] = Continue
             /\ items'[i] = items[i]
             /\ iter'[i] = [iter[i] EXCEPT !.chars = Tail(iter[i].chars),
                                           !.position = iter[i].position + 1]
             /\ state(iter'[i]) = STATE_IN_ANSI
    ]_vars

\* Two parameter chars in a row have been passed over inside a sequence
C27_Witness ==
    \E i \in Instances :
        /\ state(iter[i]) = STATE_IN_ANSI
        /\ ret[i] = Continue
        /\ Consumed(i) >= 3
        /\ text[i][Consumed(i)] = \H5B
        /\ text[i][Consumed(i) - 1] = \H5B
        /\ text[i][Consumed(i) - 2] = ESC
        /\ iter[i].position = ByteOffset(text[i], Consumed(i) - 1) + 2

---------------------------------------------------------------------------
(* C28 *)

IsOverflow(it) == IsError(it) /\ it.val.kind = "BufferOverflow"
IsInvalidAnsi(it) == IsError(it) /\ it.val.kind = "InvalidAnsiSequence"

\* C28: a step that returns BufferOverflow changes nothing but the cursor.
\* The 8 buffered chars, buffer_len (8 before and after), the state,
\* count_ansi and the remembered category are as before, the offending char
\* is stored nowhere, and position has advanced by the encoded length of
\* the offending char.
C28_OverflowOnlyMovesCursor ==
    [][\A i \in Instances :
          (Stepped(i) /\ IsOverflow(ret'[i])) =>
             /\ iter[i].chars # <<>>
             /\ iter[i].buffer_len = MAX_GRAPHEME_SIZE
             /\ iter'[i] =
                   [iter[i] EXCEPT !.chars = Tail(iter[i].chars),
                                   !.position = iter[i].position
                                                  + len_utf8(Head(iter[i].chars))]
             /\ Buffered(i)' = Buffered(i)
             /\ state(iter'[i]) = state(iter[i])
             /\ count_ansi(iter'[i]) = count_ansi(iter[i])
    ]_vars

\* A char of 4 bytes that differs from all 8 buffered chars was turned
\* away: it is in no slot of the buffer and position is 4 past its offset
C28_Witness ==
    \E i \in Instances :
        /\ IsOverflow(ret[i])
        /\ ret[i].val.sequence_len = 4
        /\ iter[i].buffer_len = MAX_GRAPHEME_SIZE
        /\ \A k \in 0..(MAX_GRAPHEME_SIZE - 1) : iter[i].buffer[k] # text[i][Consumed(i)]
        /\ iter[i].position = ret[i].val.offset + 4

---------------------------------------------------------------------------
(* C29 *)

---------------------------------------------------------------------------
(* C30 *)

\* C30: a step that returns InvalidAnsiSequence was taken in state InAnsi
\* with an empty buffer and leaves both so; it only takes the char and
\* advances position.  The step after it goes on with the next char, still
\* inside the escape sequence: a char that is not ASCII gives
\* InvalidAnsiSequence again, a parameter char or ESC gives nothing, and
\* only an ASCII letter ends the sequence (state Start).  When no char is
\* left, None is returned.
C30_InvalidAnsiKeepsSequenceOpen ==
    [][\A i \in Instances :
          /\ (Stepped(i) /\ IsInvalidAnsi(ret'[i])) =>
                /\ iter[i].chars # <<>>
                /\ state(iter[i]) = STATE_IN_ANSI
                /\ iter[i].buffer_len = 0
                /\ iter'[i] =
                      [iter[i] EXCEPT !.chars = Tail(iter[i].chars),
                                      !.position = iter[i].position
                                                     + len_utf8(Head(iter[i].chars))]
          /\ (Stepped(i) /\ IsInvalidAnsi(ret[i])) =>
                /\ state(iter[i]) = STATE_IN_ANSI
                /\ IF iter[i].chars = <<>> THEN ret'[i] = None
                   ELSE LET c == Head(iter[i].chars) IN
                        /\ iter[i].position
                              = ret[i].val.offset + ret[i].val.sequence_len
                        /\ IF ~is_ascii(c)
                           THEN /\ ret'[i] = SomeErr(invalid_ansi(iter[i].position,
                                                                  len_utf8(c)))
                                /\ state(iter'[i]) = STATE_IN_ANSI
                           ELSE IF is_ascii_alphabetic(c)
                           THEN /\ state(iter'[i]) = STATE_START
                                /\ ~IsError(ret'[i])
                           ELSE /\ state(iter'[i]) = STATE_IN_ANSI
                                /\ ret'[i] = Continue
          /\ (Stepped(i) /\ state(iter[i]) = STATE_IN_ANSI
                /\ state(iter'[i]) # STATE_IN_ANSI) =>
                /\ iter[i].chars # <<>>
                /\ is_ascii_alphabetic(Head(iter[i].chars))
    ]_vars

\* Two chars in a row gave InvalidAnsiSequence each, and the letter that
\* followed ended the sequence with its token
C30_Witness ==
    \E i \in Instances :
        /\ Len(items[i]) >= 3
        /\ LET n == Len(items[i]) IN
              /\ IsInvalidAnsi(items[i][n - 2])
              /\ IsInvalidAnsi(items[i][n - 1])
              /\ items[i][n - 1].val.offset
                    = items[i][n - 2].val.offset + items[i][n - 2].val.sequence_len
              /\ IsEscToken(items[i][n])
              /\ ret[i] = items[i][n]
        /\ state(iter[i]) = STATE_START

---------------------------------------------------------------------------
(* C31 *)

\* A text of three or more regional indicators and nothing else
IsRegionalRun(t) ==
    /\ Len(t) >= 3
    /\ \A k \in 1..Len(t) : char_category(t[k]) = REGIONAL

\* C31 as claimed: a run of three or more regional indicators is merged
\* into one cluster, with no boundary inside the run, and a run of nine or
\* more gives BufferOverflow at the ninth indicator (the first item, at the
\* offset of the ninth).  In the code the first indicator of a run that opens
\* the buffer is cut off from the second.
C31_RegionalRunIsOneCluster ==
    \A i \in Instances :
        IsRegionalRun(text[i]) =>
           IF Len(text[i]) <= MAX_GRAPHEME_SIZE
           THEN YieldsClusters(i, <<text[i]>>)
           ELSE /\ (iter[i].chars # <<>>
                      /\ Consumed(i) <= MAX_GRAPHEME_SIZE) => items[i] = <<>>
                /\ Len(items[i]) >= 1 =>
                      items[i][1] = SomeErr(buffer_overflow(
                                       ByteOffset(text[i], MAX_GRAPHEME_SIZE + 1),
                                       len_utf8(text[i][MAX_GRAPHEME_SIZE + 1])))

---------------------------------------------------------------------------
(* C32 *)

\* A boundary is found while a cluster is buffered: a char other than ESC
\* arrives in state InGrapheme and the step emits the cluster before it
BoundaryStep(i) ==
    /\ Stepped(i)
    /\ iter[i].chars # <<>>
    /\ Head(iter[i].chars) # ESC
    /\ state(iter[i]) = STATE_IN_GRAPHEME
    /\ IsCluster(ret'[i])

\* C32 as claimed, after the documentation of process_char: when a boundary
\* is found in STATE_IN_GRAPHEME the machine goes to STATE_START.  The code
\* sets STATE_IN_GRAPHEME again.
C32_BoundaryLeadsToStart ==
    [][\A i \in Instances :
          BoundaryStep(i) => state(iter'[i]) = STATE_START
    ]_vars

---------------------------------------------------------------------------
(* C33 *)

\* The transitions of the machine state a processed char may cause
Transitions ==
    { <<STATE_START, STATE_IN_GRAPHEME>>, <<STATE_START, STATE_IN_ANSI>>,
      <<STATE_IN_GRAPHEME, STATE_IN_GRAPHEME>>, <<STATE_IN_GRAPHEME, STATE_IN_ANSI>>,
      <<STATE_IN_ANSI, STATE_IN_ANSI>>, <<STATE_IN_ANSI, STATE_START>> }

\* The iterator over t after its first n chars were processed
RECURSIVE IterAfter(_, _, _)
IterAfter(t, count, n) ==
    IF n = 0 THEN new(t, count)
    ELSE LET before == IterAfter(t, count, n - 1)
         IN process_char([before EXCEPT !.chars = Tail(before.chars)], t[n]).self

\* The transitions of the machine state along the iteration over t
TransitionsOf(t, count) ==
    { <<state(IterAfter(t, count, n - 1)), state(IterAfter(t, count, n))>> :
         n \in 1..Len(t) }

---------------------------------------------------------------------------
(* C34 *)

EmptyOutsideCluster(self) ==
    state(self) \in {STATE_START, STATE_IN_ANSI} => self.buffer_len = 0

\* C34: whenever the machine state is Start or InAnsi the buffer is empty.
\* So the ASCII fast path always finds an empty buffer: it emits nothing,
\* returns no BufferOverflow and leaves its char alone in the buffer; and
\* when InvalidAnsiSequence is returned no buffered char is pending.
C34_BufferEmptyOutsideCluster ==
    [][\A i \in Instances :
          /\ EmptyOutsideCluster(iter[i])
          /\ EmptyOutsideCluster(iter'[i])
          /\ (/\ Stepped(i)
              /\ iter[i].chars # <<>>
              /\ state(iter[i]) = STATE_START
              /\ is_ascii(Head(iter[i].chars))
              /\ Head(iter[i].chars) # ESC) =>
                /\ iter[i].buffer_len = 0
                /\ ret'[i] = Continue
                /\ items'[i] = items[i]
                /\ Buffered(i)' = <<Head(iter[i].chars)>>
                /\ state(iter'[i]) = STATE_IN_GRAPHEME
          /\ (Stepped(i) /\ IsInvalidAnsi(ret'[i])) =>
                /\ iter[i].buffer_len = 0
                /\ iter'[i].buffer_len = 0
    ]_vars

\* A char inside an escape sequence gave InvalidAnsiSequence with nothing
\* pending, the sequence was ended by a letter, and the fast path then took
\* an ASCII char in state Start into the empty buffer
C34_Witness ==
    \E i \in Instances :
        /\ state(iter[i]) = STATE_IN_GRAPHEME
        /\ Buffered(i) = << \H61 >>
        /\ ret[i] = Continue
        /\ Consumed(i) >= 4
        /\ is_ascii_alphabetic(text[i][Consumed(i) - 1])
        /\ ~is_ascii(text[i][Consumed(i) - 2])
        /\ text[i][Consumed(i) - 3] = ESC
        /\ \E k \in 1..Len(items[i]) : IsInvalidAnsi(items[i][k])

---------------------------------------------------------------------------
(* C35 *)

\* The k-th char of t is an ESC whose sequence is not terminated: only
\* ASCII chars that are no letters follow it, or nothing
OpenEscapeAt(t, k) ==
    /\ t[k] = ESC
    /\ \A m \in (k + 1)..Len(t) : is_ascii(t[m]) /\ ~is_ascii_alphabetic(t[m])

\* C35: an escape sequence that is not terminated before the input ends
\* gives no item of its own, with count_ansi set or not.  From its ESC on
\* the items are those of the text before the ESC run alone, the buffer is
\* empty and the machine is in InAnsi, so that None is returned right after
\* the last cluster that preceded the ESC.
C35_OpenSequenceGivesNoItem ==
    \A i \in Instances :
        \A k \in 1..Len(text[i]) :
            (OpenEscapeAt(text[i], k) /\ Consumed(i) >= k) =>
               /\ items[i] = collect(new(SubSeq(text[i], 1, k - 1),
                                         count_ansi(iter[i])), <<>>)
               /\ iter[i].buffer_len = 0
               /\ state(iter[i]) = STATE_IN_ANSI
               /\ \A n \in 1..Len(items[i]) :
                     IsEscToken(items[i][n]) =>
                        \E m \in 1..(k - 1) : is_ascii_alphabetic(text[i][m])
               /\ ret[i] \in {None, Continue} \cup
                             (IF Consumed(i) = k /\ Len(items[i]) > 0
                              THEN {items[i][Len(items[i])]} ELSE {})

\* With count_ansi set, an iteration over two chars followed by ESC and
\* two parameter chars has ended with the two clusters and no token
C35_Witness ==
    \E i \in Instances :
        /\ Exhausted(i)
        /\ count_ansi(iter[i])
        /\ Len(text[i]) = 5
        /\ OpenEscapeAt(text[i], 3)
        /\ text[i][4] = \H5B /\ text[i][5] = \H5B
        /\ Len(items[i]) = 2
        /\ \A n \in 1..2 : IsCluster(items[i][n]) /\ ~IsEscToken(items[i][n])
        /\ state(iter[i]) = STATE_IN_ANSI

---------------------------------------------------------------------------
(* C36 *)

\* The char c arriving at the iterator self is one that the claim counts:
\* not ASCII while in InAnsi, or not ESC outside InAnsi with a full buffer
ErrorTrigger(self, c) ==
    \/ state(self) = STATE_IN_ANSI /\ ~is_ascii(c)
    \/ /\ state(self) # STATE_IN_ANSI
       /\ c # ESC
       /\ self.buffer_len = MAX_GRAPHEME_SIZE

\* The number of errors among the items its
ErrorCount(its) == Cardinality({ n \in 1..Len(its) : IsError(its[n]) })

\* The chars of t that are counted when t is iterated from the start
TriggerChars(t, count) ==
    { k \in 1..Len(t) : ErrorTrigger(IterAfter(t, count, k - 1), t[k]) }

---------------------------------------------------------------------------
(* C37 *)

\* The values the packed state byte can take: the three machine states,
\* with bit 3 clear or set
PackedStates ==
    { s + f : s \in {STATE_START, STATE_IN_GRAPHEME, STATE_IN_ANSI}, f \in {0, 8} }

\* C37: count_ansi is fixed at construction.  No step of next() (a char
\* through any arm of process_char, an error, the flush at the end of input,
\* None) changes bit 3 of the packed state byte, and before and after every
\* step the byte has no bit set above bit 3 and its low three bits are Start
\* (0), InCluster (1) or InAnsi (2).
C37_CountAnsiIsFixed ==
    [][\A i \in Instances :
          /\ count_ansi(iter'[i]) = count_ansi(iter[i])
          /\ (iter'[i].state \div 8) % 2 = (iter[i].state \div 8) % 2
          /\ state(iter[i]) \in {STATE_START, STATE_IN_GRAPHEME, STATE_IN_ANSI}
          /\ state(iter'[i]) \in {STATE_START, STATE_IN_GRAPHEME, STATE_IN_ANSI}
          /\ {state(iter[i]), state(iter'[i])} \subseteq {0, 1, 2}
          /\ {iter[i].state, iter'[i].state} \subseteq PackedStates
      ]_vars

\* An iterator built with count_ansi has been through an error in InAnsi,
\* the end of the sequence and a cluster flushed at the end of input, and
\* still has bit 3 set, with the machine in InCluster
C37_Witness ==
    \E i \in Instances :
        /\ Exhausted(i)
        /\ count_ansi(iter[i])
        /\ iter[i].state = 8 + STATE_IN_GRAPHEME
        /\ \E n \in 1..Len(items[i]) : IsInvalidAnsi(items[i][n])
        /\ \E n \in 1..Len(items[i]) : IsEscToken(items[i][n])
        /\ \E n \in 1..Len(items[i]) :
              IsCluster(items[i][n]) /\ ~IsEscToken(items[i][n])

---------------------------------------------------------------------------
(* C38 *)

\* Scalar values at the ends of every range the classifier tests, next to
\* them on the outside, and a few in between
SampleChars ==
    { \H00, ESC, \H41, \H61, \H7F, \H80,
      \H200C, \H200D, \H200E,
      \HFE0E, \HFE0F, \HFE10,
      \H1F3FA, \H1F3FB, \H1F3FD, \H1F3FF, \H1F400,
      \H1F1E5, \H1F1E6, \H1F1FF, \H1F200,
      \H02FF, \H0300, \H036F, \H0370, \H1AB0, \H1AFF, \H1DC0, \H1DFF,
      \H20D0, \H20FF, \HFE20, \HFE2F, \HFE30,
      \H0902, \H0903, \H0904, \H093E, \H0940, \H0949, \H094C, \H094E,
      \H094F, \H0982, \H0983,
      \H05FF, \H0600, \H0605, \H0606, \H06DD, \H070F, \H0890, \H0891, \H08E2,
      \H1F300, \H1F468, \H1F9FF, \H2600, \H26FF, \H2700, \H27BF,
      \H1234, \H10FFFF }

\* Every sample alone, and after a char of category zero that is not ASCII,
\* where is_boundary classifies it
ClassifyTexts == { <<c>> : c \in SampleChars } \cup { <<\H1234, c>> : c \in SampleChars }

InitClassify == \E t \in ClassifyTexts : InitWith([i \in {1} |-> t])

SpecClassify == InitClassify /\ [][Next]_vars

\* The flags of mod boundary that are set in the value v
FlagsIn(v) ==
    { f \in {EXTEND, ZWJ, SPACINGMARK, PREPEND, REGIONAL, EMOJI_MOD} : (v \div f) % 2 = 1 }

\* C38: the classifier gives every scalar value one of 0, EXTEND, ZWJ,
\* SPACINGMARK, PREPEND, REGIONAL, EMOJI_MOD: at most one flag is set in the
\* value and nothing else.  Every ASCII scalar value has category 0, and a
\* skin-tone modifier (U+1F3FB..U+1F3FF), which is in the emoji range, has
\* category EMOJI_MOD.  The category the iterator remembers after deciding
\* on a char is the value the classifier gives for it.
C38_ClassifierGivesOneFlag ==
    \A i \in Instances :
        /\ \A k \in 1..Len(text[i]) :
              LET c == text[i][k]
                  category == char_category(c)
              IN /\ category \in Categories
                 /\ Cardinality(FlagsIn(category)) <= 1
                 /\ category = (IF FlagsIn(category) = {} THEN 0
                                ELSE CHOOSE f \in FlagsIn(category) : TRUE)
                 /\ is_ascii(c) => category = 0
                 /\ InRange(c, \H1F3FB, \H1F3FF) =>
                       is_emoji(c) /\ category = EMOJI_MOD
        /\ (/\ Len(text[i]) = 2
            /\ Consumed(i) = 2
            /\ ~is_ascii(text[i][1])
            /\ ~is_ascii(text[i][2])) =>
              iter[i].prev_category = char_category(text[i][2])

\* The iterator has classified a skin-tone modifier that followed a char of
\* category zero: it remembers EMOJI_MOD and has joined the two
C38_Witness ==
    \E i \in Instances :
        /\ text[i] = <<\H1234, \H1F3FD>>
        /\ Consumed(i) = 2
        /\ is_emoji(text[i][2])
        /\ iter[i].prev_category = EMOJI_MOD
        /\ iter[i].buffer_len = 2

=============================================================================
